---- MODULE Spec2Model ----
(***************************************************************************)
(* Technology group target scheduler of                                    *)
(* switch_model/hawaii/heco_outlook_2019.py (define_components).           *)
(*                                                                         *)
(* One behaviour is one run of define_components on one set of inputs.     *)
(* Components are constructed in the order in which the code declares      *)
(* them.  Quantities are integers in tenths of a MW (162.3 MW = 1623).     *)
(* A Python optional is a sequence: <<>> is None, <<x>> is the value x.    *)
(* A target quantity q is <<mw>> for a plain number and <<mw, hours>> for  *)
(* a (MW, hours) tuple.                                                    *)
(***************************************************************************)
EXTENDS Integers, Sequences, FiniteSets, TLC

VARIABLES
    \* inputs of the run (never assigned after Init)
    psip,                        \* resolved PSIP flag (lines 47-56)
    psip_relax_after,            \* m.options.psip_relax_after
    psip_minimal_renewables,     \* m.options.psip_minimal_renewables
    force_build,                 \* m.options.force_build
    definite_table,              \* literal rows of tech_group_targets_definite
    psip_table,                  \* literal rows of tech_group_targets_psip
    gen_info_csv,                \* generation_projects_info.csv
    predetermined_csv,           \* gen_build_predetermined.csv
    PERIODS,                     \* m.PERIODS (periods.csv), ascending
    BuildGen,                    \* index set of m.BuildGen
    \* state of the run
    pc,                          \* position in define_components
    err,                         \* the exception that ended the run, or "none"
    tech_group_targets_definite,
    tech_group_targets,
    techs_for_tech_group,
    tech_tech_group,
    existing_techs,
    ages,
    rebuildable_targets,
    idx,                         \* position of the for loop of line 435
    rebuild,                     \* the counter of the while loop of line 445
    tech_life,
    last_definite_target,
    tech_group_power_target,
    tech_group_energy_target,
    predetermined_power_cap,
    power_mode,                  \* m.Enforce_Tech_Group_Power_Target
    energy_mode,                 \* m.Enforce_Tech_Group_Energy_Target
    advanced,                    \* the PSIP_No_<var> constraints registered
    applied                      \* how many times the reconstruction pass began

inputs == <<psip, psip_relax_after, psip_minimal_renewables, force_build,
            definite_table, psip_table, gen_info_csv, predetermined_csv,
            PERIODS, BuildGen>>

vars == <<psip, psip_relax_after, psip_minimal_renewables, force_build,
          definite_table, psip_table, gen_info_csv, predetermined_csv,
          PERIODS, BuildGen,
          pc, err, tech_group_targets_definite, tech_group_targets,
          techs_for_tech_group, tech_tech_group, existing_techs, ages,
          rebuildable_targets, idx, rebuild, tech_life, last_definite_target,
          tech_group_power_target, tech_group_energy_target,
          predetermined_power_cap, power_mode, energy_mode, advanced, applied>>

-----------------------------------------------------------------------------
(* Bounds of the inputs *)

MaxDefinite == 2
MaxPlan == 1
\* the largest value of the counter of the while loop of line 445 that is
\* still tested
MaxRebuild == 4

-----------------------------------------------------------------------------
(* Generic helpers *)

None == <<>>
Some(x) == <<x>>

Range(s) == {s[i] : i \in DOMAIN s}

Max(a, b) == IF a >= b THEN a ELSE b

\* The subsequences of s (order kept) with at most n elements.
RECURSIVE SubSeqsUpTo(_, _)
SubSeqsUpTo(s, n) ==
    IF s = <<>> \/ n = 0 THEN {<<>>}
    ELSE LET rest == Tail(s)
         IN  SubSeqsUpTo(rest, n)
             \cup {<<Head(s)>> \o t : t \in SubSeqsUpTo(rest, n - 1)}

Target(y, t, q) == [y |-> y, t |-> t, q |-> q]

-----------------------------------------------------------------------------
(* is_renewable, is_battery (lines 33-36): substring tests on the name,    *)
(* tabulated over the names of the universe.                               *)

is_renewable(tech) ==
    tech \in {"DistPV", "SlopedDistPV", "FlatDistPV", "LargePV",
              "CentralTrackingPV", "CentralFixedPV", "OnshoreWind",
              "OffshoreWind"}

is_battery(tech) == tech \in {"Battery_Bulk", "DistBattery", "Battery_Conting"}

-----------------------------------------------------------------------------
(* The input universe *)

\* rows of tech_group_targets_definite the runs draw from (lines 162-165)
DefiniteRows ==
    << Target(2020, "DistPV", <<1623>>),
       Target(2022, "DistPV", <<740>>),
       Target(2030, "DistPV", <<1238>>) >>

\* rows of tech_group_targets_psip the runs draw from (lines 331-348)
PsipRows ==
    << Target(2022, "IC_Barge", <<1000>>),
       Target(2025, "Battery_Bulk", <<290, 4>>),
       Target(2040, "LargePV", <<2800>>) >>

\* --force-build arguments the runs draw from
ForceBuildArgs == {None, Some(<<2035, "DistPV", 500>>)}

RelaxAfterArgs == {None, Some(2025)}

PeriodLists ==
    { <<2020, 2025, 2030>>,
      <<2020, 2025, 2030, 2035, 2040, 2045>> }

Project(g, tech, age) == [g |-> g, gen_tech |-> tech, gen_max_age |-> age]

\* contents of generation_projects_info.csv the runs draw from
GenInfoFiles ==
    { { Project("PV_A", "SlopedDistPV", 25),
        Project("PV_B", "CentralTrackingPV", 25),
        Project("BAT", "Battery_Bulk", 15),
        Project("ICE", "IC_Barge", 30) } }

Build(g, y, cap) == [g |-> g, build_year |-> y, cap |-> cap]

\* contents of gen_build_predetermined.csv the runs draw from
PredeterminedFiles ==
    { <<>>,
      <<Build("PV_A", 1965, 4440)>>,
      <<Build("PV_B", 2020, 50)>>,
      <<Build("ICE", 2010, 1000)>> }

\* --force-build arguments that name a member technology of an explicit
\* group, or a storage group (nargs=3: the quantity is always one number)
ForceBuildArgsEdge ==
    {None, Some(<<2035, "SlopedDistPV", 500>>),
     Some(<<2025, "Battery_Bulk", 290>>)}

\* period lists with a gap longer than the life of a group
PeriodListsEdge == PeriodLists \cup { <<2020, 2045>> }

\* project files with a gen_max_age of 0, and without any IC_Barge project
GenInfoFilesEdge ==
    GenInfoFiles
    \cup { { Project("PV_A", "SlopedDistPV", 25),
             Project("PV_B", "CentralTrackingPV", 25),
             Project("BAT", "Battery_Bulk", 0),
             Project("ICE", "IC_Barge", 30) },
           { Project("PV_A", "SlopedDistPV", 25),
             Project("PV_B", "CentralTrackingPV", 25),
             Project("BAT", "Battery_Bulk", 15) } }

PredeterminedFilesEdge == { <<>>, <<Build("PV_A", 1965, 4440)>> }

\* lines 601-605
advanced_tech_vars ==
    {"BuildPumpedHydroMW", "BuildAnyPumpedHydro", "BuildElectrolyzerMW",
     "BuildLiquifierKgPerHour", "BuildLiquidHydrogenTankKg",
     "BuildFuelCellMW"}

\* the attributes of the host model that getattr(m, v) finds (line 610)
model_attributes == {"BuildGen", "BuildPumpedHydroMW", "BuildAnyPumpedHydro"}

\* m.GENERATION_PROJECTS, m.gen_tech and m.STORAGE_GENS of the host model
GENERATION_PROJECTS == {p.g : p \in gen_info_csv}
gen_tech(g) == (CHOOSE p \in gen_info_csv : p.g = g).gen_tech
STORAGE_GENS == GENERATION_PROJECTS \cap {"BAT"}

\* index sets of m.BuildGen the runs draw from: every project in every
\* period, or no distributed PV project at all
BuildGenIndexes(projects, periods) ==
    { {p.g : p \in projects} \X Range(periods),
      ({p.g : p \in projects} \ {"PV_A"}) \X Range(periods) }

\* m.BuildStorageEnergy has the indexes of BuildGen that are storage projects
BuildStorageEnergy == {k \in BuildGen : k[1] \in STORAGE_GENS}

-----------------------------------------------------------------------------
\* the state when define_components is entered
Start ==
    /\ pc = "targets"
    /\ err = "none"
    /\ tech_group_targets_definite = <<>>
    /\ tech_group_targets = <<>>
    /\ techs_for_tech_group = <<>>
    /\ tech_tech_group = <<>>
    /\ existing_techs = <<>>
    /\ ages = <<>>
    /\ rebuildable_targets = <<>>
    /\ idx = 0
    /\ rebuild = 0
    /\ tech_life = <<>>
    /\ last_definite_target = <<>>
    /\ tech_group_power_target = <<>>
    /\ tech_group_energy_target = <<>>
    /\ predetermined_power_cap = <<>>
    /\ power_mode = <<>>
    /\ energy_mode = <<>>
    /\ advanced = {}
    /\ applied = 0

Init ==
    /\ psip \in BOOLEAN
    /\ psip_relax_after \in RelaxAfterArgs
    /\ psip_minimal_renewables \in BOOLEAN
    /\ force_build \in ForceBuildArgs
    /\ definite_table \in SubSeqsUpTo(DefiniteRows, MaxDefinite)
    /\ psip_table \in SubSeqsUpTo(PsipRows, MaxPlan)
    /\ gen_info_csv \in GenInfoFiles
    /\ predetermined_csv \in PredeterminedFiles
    /\ PERIODS \in PeriodLists
    /\ BuildGen \in BuildGenIndexes(gen_info_csv, PERIODS)
    /\ Start

-----------------------------------------------------------------------------
(* Lines 313-374: the command-line target and the choice of the targets    *)

\* lines 315-324: the --force-build target, appended to the definite targets
forced_targets ==
    IF force_build # None
    THEN LET b == force_build[1]
         IN  <<Target(b[1], b[2], <<b[3]>>)>>
    ELSE <<>>

\* relaxed_psip_targets without the year of --psip-relax-after itself
relaxed_psip_targets_strict(relax_after) ==
    SelectSeq(psip_table, LAMBDA t : t.y < relax_after)

\* line 369: the PSIP targets kept by --psip-relax-after
relaxed_psip_targets(relax_after) ==
    SelectSeq(psip_table, LAMBDA t : t.y <= relax_after)

\* lines 365-371
psip_targets ==
    IF psip_relax_after # None
    THEN relaxed_psip_targets(psip_relax_after[1])
    ELSE psip_table

\* Lines 372 and 374.  On line 374 tech_group_targets is the same list object
\* as tech_group_targets_definite; line 372 builds a new list.
SameList == ~psip

ChooseTargets ==
    /\ pc = "targets"
    /\ tech_group_targets_definite' = definite_table \o forced_targets
    /\ tech_group_targets' =
          IF psip
          THEN tech_group_targets_definite' \o psip_targets
          ELSE tech_group_targets_definite'
    /\ pc' = "groups"
    /\ UNCHANGED <<inputs, err, techs_for_tech_group, tech_tech_group,
                   existing_techs, ages, rebuildable_targets, idx, rebuild,
                   tech_life, last_definite_target, tech_group_power_target,
                   tech_group_energy_target, predetermined_power_cap,
                   power_mode, energy_mode, advanced, applied>>

-----------------------------------------------------------------------------
(* Lines 376-393: technology groups *)

\* lines 378-381
explicit_groups ==
    [g \in {"DistPV", "LargePV"} |->
        IF g = "DistPV" THEN <<"DistPV", "SlopedDistPV", "FlatDistPV">>
        ELSE <<"CentralTrackingPV", "CentralFixedPV">>]

\* lines 383-386
missing_techs ==
    {t.t : t \in Range(tech_group_targets)} \ DOMAIN explicit_groups

\* lines 378-387
all_groups ==
    [g \in DOMAIN explicit_groups \cup missing_techs |->
        IF g \in DOMAIN explicit_groups THEN explicit_groups[g] ELSE <<g>>]

\* Lines 389-393.  The comprehension visits the groups in the order of the
\* dict (the explicit groups, then the missing ones) and a later entry for
\* the same technology replaces an earlier one.
reverse_mapping(groups) ==
    LET techs == UNION {Range(groups[g]) : g \in DOMAIN groups}
        listing(tech) == {g \in DOMAIN groups : tech \in Range(groups[g])}
    IN  [tech \in techs |->
            IF listing(tech) \ DOMAIN explicit_groups # {}
            THEN CHOOSE g \in listing(tech) \ DOMAIN explicit_groups : TRUE
            ELSE IF "LargePV" \in listing(tech) THEN "LargePV"
            ELSE "DistPV"]

ResolveGroups ==
    /\ pc = "groups"
    /\ techs_for_tech_group' = all_groups
    /\ tech_tech_group' = reverse_mapping(all_groups)
    /\ pc' = "load"
    /\ UNCHANGED <<inputs, err, tech_group_targets_definite,
                   tech_group_targets, existing_techs, ages,
                   rebuildable_targets, idx, rebuild, tech_life,
                   last_definite_target, tech_group_power_target,
                   tech_group_energy_target, predetermined_power_cap,
                   power_mode, energy_mode, advanced, applied>>

\* lines 457-466
FORECASTED_TECH_GROUPS == DOMAIN techs_for_tech_group
FORECASTED_TECHS == DOMAIN tech_tech_group
RENEWABLE_TECH_GROUPS == {tg \in FORECASTED_TECH_GROUPS : is_renewable(tg)}

-----------------------------------------------------------------------------
(* Lines 412-425: project information and existing capacity *)

\* alphabetical order of the group names (the order of a pandas groupby)
GroupOrder ==
    <<"Battery_Bulk", "CentralFixedPV", "CentralTrackingPV", "DistPV",
      "FlatDistPV", "IC_Barge", "LargePV", "SlopedDistPV">>
GroupRank(t) == CHOOSE i \in DOMAIN GroupOrder : GroupOrder[i] = t

\* lines 412-414: the projects whose technology belongs to a group
gen_info == {p \in gen_info_csv : p.gen_tech \in FORECASTED_TECHS}
tech_group_of(p) == tech_tech_group[p.gen_tech]

RECURSIVE SumCap(_)
SumCap(rows) ==
    IF rows = {} THEN 0
    ELSE LET r == CHOOSE r \in rows : TRUE
         IN  r.cap + SumCap(rows \ {r})

\* the rows of gen_build_predetermined.csv joined with gen_info (line 418)
merged_rows ==
    {[build_year |-> r.build_year, tech_group |-> tech_group_of(p),
      g |-> r.g, cap |-> r.cap] :
        <<r, p>> \in {<<r, p>> \in Range(predetermined_csv) \X gen_info :
                         r.g = p.g}}

RECURSIVE SortKeys(_)
SortKeys(keys) ==
    IF keys = {} THEN <<>>
    ELSE LET k == CHOOSE k \in keys : \A o \in keys :
                      \/ k[1] < o[1]
                      \/ k[1] = o[1] /\ GroupRank(k[2]) <= GroupRank(o[2])
         IN  <<k>> \o SortKeys(keys \ {k})

\* lines 416-421: capacity summed by build year and group, sorted by them
grouped_existing ==
    LET keys == {<<r.build_year, r.tech_group>> : r \in merged_rows}
        sorted == SortKeys(keys)
    IN  [i \in DOMAIN sorted |->
            Target(sorted[i][1], sorted[i][2],
                   <<SumCap({r \in merged_rows :
                               /\ r.build_year = sorted[i][1]
                               /\ r.tech_group = sorted[i][2]})>>)]

\* line 423: the ages of the projects of a group
group_ages(tg) == {p.gen_max_age : p \in {p \in gen_info : tech_group_of(p) = tg}}

\* line 425
last_period == PERIODS[Len(PERIODS)]

LoadInputs ==
    /\ pc = "load"
    /\ LET groups == {tech_group_of(p) : p \in gen_info}
       IN  IF \E t \in Range(grouped_existing) : is_battery(t.t)
           THEN \* line 422
                /\ pc' = "failed"
                /\ err' = "AssertionError: pre-existing batteries"
                /\ UNCHANGED <<existing_techs, ages>>
           ELSE IF \E tg \in groups : Cardinality(group_ages(tg)) > 1
           THEN \* line 424
                /\ pc' = "failed"
                /\ err' = "AssertionError: mixed ages"
                /\ existing_techs' = grouped_existing
                /\ UNCHANGED ages
           ELSE /\ pc' = "rebuildable"
                /\ existing_techs' = grouped_existing
                /\ ages' = [tg \in groups |->
                              CHOOSE a \in group_ages(tg) : TRUE]
                /\ UNCHANGED err
    /\ UNCHANGED <<inputs, tech_group_targets_definite, tech_group_targets,
                   techs_for_tech_group, tech_tech_group,
                   rebuildable_targets, idx, rebuild, tech_life,
                   last_definite_target, tech_group_power_target,
                   tech_group_energy_target, predetermined_power_cap,
                   power_mode, energy_mode, advanced, applied>>

-----------------------------------------------------------------------------
(* Lines 427-448: reconstruction at retirement *)

\* rebuildable without the existing capacity
rebuildable_targets_only(existing, targets) == targets

\* lines 429-433: a new list, so the loop never visits what it appends
rebuildable(existing, targets) ==
    SelectSeq(existing, LAMBDA t : is_renewable(t.t) \/ is_battery(t.t))
    \o targets

StartRebuild ==
    /\ pc = "rebuildable"
    /\ rebuildable_targets' = rebuildable(existing_techs, tech_group_targets)
    /\ tech_life' = <<>>
    /\ idx' = 1
    /\ applied' = applied + 1
    /\ pc' = "for"
    /\ UNCHANGED <<inputs, err, tech_group_targets_definite,
                   tech_group_targets, techs_for_tech_group, tech_tech_group,
                   existing_techs, ages, rebuild, last_definite_target,
                   tech_group_power_target, tech_group_energy_target,
                   predetermined_power_cap, power_mode, energy_mode,
                   advanced>>

\* unknown_group that finds every group
unknown_group_never(tech_group) == FALSE

\* line 436: tech_group not in ages.index
unknown_group(tech_group) == tech_group \notin DOMAIN ages

\* line 435: the next element of rebuildable_targets, if any; lines 436-444
\* (ages.loc of line 442 raises KeyError for a label that is not in the
\* index)
RebuildFor ==
    /\ pc = "for"
    /\ IF idx > Len(rebuildable_targets)
       THEN /\ pc' = "params"
            /\ UNCHANGED <<err, tech_life, rebuild>>
       ELSE LET tech_group == rebuildable_targets[idx].t
            IN  IF unknown_group(tech_group)
                THEN /\ pc' = "failed"
                     /\ err' = "ValueError: no matching technologies"
                     /\ UNCHANGED <<tech_life, rebuild>>
                ELSE IF tech_group \notin DOMAIN ages
                THEN /\ pc' = "failed"
                     /\ err' = "KeyError"
                     /\ UNCHANGED <<tech_life, rebuild>>
                ELSE /\ tech_life' =
                          [tg \in DOMAIN tech_life \cup {tech_group} |->
                              IF tg = tech_group THEN ages[tech_group]
                              ELSE tech_life[tg]]
                     /\ rebuild' = 1
                     /\ pc' = "while"
                     /\ UNCHANGED err
    /\ UNCHANGED <<inputs, tech_group_targets_definite, tech_group_targets,
                   techs_for_tech_group, tech_tech_group, existing_techs,
                   ages, rebuildable_targets, idx, last_definite_target,
                   tech_group_power_target, tech_group_energy_target,
                   predetermined_power_cap, power_mode, energy_mode,
                   advanced, applied>>

\* rebuild_due with < in place of <=
rebuild_due_strict(build_year, n, max_age) ==
    build_year + n * max_age < PERIODS[Len(PERIODS)]

\* line 445: the condition of the while loop
rebuild_due(build_year, n, max_age) == build_year + n * max_age <= last_period

\* line 446: the successor appended by the loop body
successor(t, n, max_age) == Target(t.y + n * max_age, t.t, t.q)

\* list_append putting the item in front
list_append_front(list, item) == <<item>> \o list

\* line 446: list.append
list_append(list, item) == Append(list, item)

\* lines 445-447: one test of the while condition and, if it holds, one
\* pass through the body.  The append of line 446 is an append to the one
\* list object both names denote when SameList.  The loop has no bound of
\* its own; the counter is followed up to MaxRebuild.
RebuildWhile ==
    /\ pc = "while"
    /\ rebuild <= MaxRebuild
    /\ LET t == rebuildable_targets[idx]
           max_age == ages[t.t]
       IN  IF rebuild_due(t.y, rebuild, max_age)
           THEN /\ tech_group_targets' =
                      list_append(tech_group_targets,
                                  successor(t, rebuild, max_age))
                /\ tech_group_targets_definite' =
                      IF SameList THEN tech_group_targets'
                      ELSE tech_group_targets_definite
                /\ rebuild' = rebuild + 1
                /\ UNCHANGED <<pc, idx>>
           ELSE /\ idx' = idx + 1
                /\ pc' = "for"
                /\ UNCHANGED <<tech_group_targets,
                               tech_group_targets_definite, rebuild>>
    /\ UNCHANGED <<inputs, err, techs_for_tech_group, tech_tech_group,
                   existing_techs, ages, rebuildable_targets, tech_life,
                   last_definite_target, tech_group_power_target,
                   tech_group_energy_target, predetermined_power_cap,
                   power_mode, energy_mode, advanced, applied>>

-----------------------------------------------------------------------------
(* Lines 450-488: the targets of each period *)

\* lines 450-452
tech_group_power_targets ==
    [i \in DOMAIN tech_group_targets |->
        Target(tech_group_targets[i].y, tech_group_targets[i].t,
               tech_group_targets[i].q[1])]

\* lines 453-455
tech_group_energy_targets ==
    LET tuples == SelectSeq(tech_group_targets, LAMBDA t : Len(t.q) = 2)
    IN  [i \in DOMAIN tuples |->
            Target(tuples[i].y, tuples[i].t, tuples[i].q[1] * tuples[i].q[2])]

\* m.PERIODS.first(), m.PERIODS.prev(per)
first_period == PERIODS[1]
prev_period(per) ==
    PERIODS[(CHOOSE i \in DOMAIN PERIODS : PERIODS[i] = per) - 1]

\* line 472
window_start(per) == IF per = first_period THEN 0 ELSE prev_period(per)

\* in_window with the start of the window included (start <= tyear)
in_window_closed(t, tech, start, end) ==
    /\ t.t = tech
    /\ start <= t.y /\ t.y <= end
    /\ t.y + tech_life[t.t] > end

\* in_window counting everything built so far and not yet retired
in_window_cumulative(t, tech, start, end) ==
    /\ t.t = tech
    /\ t.y <= end
    /\ t.y + tech_life[t.t] > end

\* in_window without the test that the event has not retired
in_window_no_retirement(t, tech, start, end) ==
    /\ t.t = tech
    /\ start < t.y /\ t.y <= end

\* lines 476-478: the condition of the generator expression
in_window(t, tech, start, end) ==
    /\ t.t = tech
    /\ start < t.y /\ t.y <= end
    /\ t.y + tech_life[t.t] > end

RECURSIVE SumTargets(_, _, _, _)
SumTargets(targets, tech, start, end) ==
    IF targets = <<>> THEN 0
    ELSE (IF in_window(Head(targets), tech, start, end)
          THEN Head(targets).q ELSE 0)
         + SumTargets(Tail(targets), tech, start, end)

\* lines 468-480
tech_group_target(per, tech, targets) ==
    SumTargets(targets, tech, window_start(per), per)

PeriodGroups == Range(PERIODS) \X FORECASTED_TECH_GROUPS

\* lines 482-488: the two parameters, indexed by period and group
TargetParams ==
    /\ pc = "params"
    /\ tech_group_power_target' =
          [k \in PeriodGroups |->
              tech_group_target(k[1], k[2], tech_group_power_targets)]
    /\ tech_group_energy_target' =
          [k \in PeriodGroups |->
              tech_group_target(k[1], k[2], tech_group_energy_targets)]
    /\ pc' = "dicts"
    /\ UNCHANGED <<inputs, err, tech_group_targets_definite,
                   tech_group_targets, techs_for_tech_group, tech_tech_group,
                   existing_techs, ages, rebuildable_targets, idx, rebuild,
                   tech_life, last_definite_target, predetermined_power_cap,
                   power_mode, energy_mode, advanced, applied>>

\* m.gen_predetermined_cap: capacity by project and build year
gen_predetermined_cap(g, per) ==
    SumCap({r \in Range(predetermined_csv) : r.g = g /\ r.build_year = per})

RECURSIVE SumPredetermined(_, _, _)
SumPredetermined(gens, tech_group, per) ==
    IF gens = {} THEN 0
    ELSE LET g == CHOOSE g \in gens : TRUE
         IN  (IF /\ gen_tech(g) \in FORECASTED_TECHS
                 /\ tech_tech_group[gen_tech(g)] = tech_group
              THEN gen_predetermined_cap(g, per) ELSE 0)
             + SumPredetermined(gens \ {g}, tech_group, per)

\* Lines 502-508: predetermined capacity summed by group and period (a
\* defaultdict: 0 where nothing was added).  The unit sizes of lines
\* 491-501 and the energy capacities of lines 509-522 are left out: no
\* project of the universe has a free energy to power ratio.
MakeTechGroupDicts ==
    /\ pc = "dicts"
    /\ predetermined_power_cap' =
          [k \in PeriodGroups |->
              SumPredetermined(GENERATION_PROJECTS, k[2], k[1])]
    /\ pc' = "last_definite"
    /\ UNCHANGED <<inputs, err, tech_group_targets_definite,
                   tech_group_targets, techs_for_tech_group, tech_tech_group,
                   existing_techs, ages, rebuildable_targets, idx, rebuild,
                   tech_life, last_definite_target, tech_group_power_target,
                   tech_group_energy_target, power_mode, energy_mode,
                   advanced, applied>>

-----------------------------------------------------------------------------
(* Lines 525-534: the last year with a definite target *)

RECURSIVE LastYears(_, _)
LastYears(targets, last) ==
    IF targets = <<>> THEN last
    ELSE LET t == Head(targets)
             seen == IF t.t \in DOMAIN last THEN last[t.t] ELSE 0
         IN  LastYears(Tail(targets),
                       [tg \in DOMAIN last \cup {t.t} |->
                           IF tg = t.t THEN Max(t.y, seen) ELSE last[tg]])

\* lines 532-534: run over tech_group_targets_definite as it is now
LastDefiniteTarget ==
    /\ pc = "last_definite"
    /\ last_definite_target' = LastYears(tech_group_targets_definite, <<>>)
    /\ pc' = "power"
    /\ UNCHANGED <<inputs, err, tech_group_targets_definite,
                   tech_group_targets, techs_for_tech_group, tech_tech_group,
                   existing_techs, ages, rebuildable_targets, idx, rebuild,
                   tech_life, tech_group_power_target,
                   tech_group_energy_target, predetermined_power_cap,
                   power_mode, energy_mode, advanced, applied>>

\* last_definite_target.get(tech_group, 0)
last_definite_get(tech_group) ==
    IF tech_group \in DOMAIN last_definite_target
    THEN last_definite_target[tech_group] ELSE 0

-----------------------------------------------------------------------------
(* Lines 536-593: the constraints of each period and group *)

\* lines 546-552: the projects whose build variable enters the sum
matching_projects(per, tech_group, build_var) ==
    {g \in GENERATION_PROJECTS :
        /\ gen_tech(g) \in FORECASTED_TECHS
        /\ tech_tech_group[gen_tech(g)] = tech_group
        /\ <<g, per>> \in build_var}

\* psip_in_effect with --psip-relax-after ignored
psip_in_effect_always(per) == psip

\* line 564
psip_in_effect(per) ==
    psip /\ (psip_relax_after = None \/ per <= psip_relax_after[1])

\* enforcement with the definite targets looked at only when psip is off
enforcement_lock_in_without_psip(per, tech_group) ==
    IF psip_in_effect(per) THEN "Exact"
    ELSE IF ~psip /\ per <= last_definite_get(tech_group) THEN "Exact"
    ELSE IF psip_minimal_renewables /\ tech_group \in RENEWABLE_TECH_GROUPS
    THEN "Exact"
    ELSE "LowerBound"

\* enforcement with the definite targets binding in their last year only
enforcement_lock_in_last_year_only(per, tech_group) ==
    IF psip_in_effect(per) THEN "Exact"
    ELSE IF per = last_definite_get(tech_group) THEN "Exact"
    ELSE IF psip_minimal_renewables /\ tech_group \in RENEWABLE_TECH_GROUPS
    THEN "Exact"
    ELSE "LowerBound"

\* lines 564-576: the relation between build and target
enforcement(per, tech_group) ==
    IF psip_in_effect(per) THEN "Exact"
    ELSE IF per <= last_definite_get(tech_group) THEN "Exact"
    ELSE IF psip_minimal_renewables /\ tech_group \in RENEWABLE_TECH_GROUPS
    THEN "Exact"
    ELSE "LowerBound"

\* no_projects_outcome that skips whatever the target is
no_projects_always_skip(target) == "Skip"

\* lines 554-562: the sum is the int 0 when no project matches
no_projects_outcome(target) == IF target = 0 THEN "Skip" ELSE "ValueError"

\* lines 536-576
tech_group_target_rule(per, tech_group, build_var, target) ==
    LET build == matching_projects(per, tech_group, build_var)
    IN  [mode |-> IF build = {} THEN no_projects_outcome(target)
                  ELSE enforcement(per, tech_group),
         build |-> build,
         target |-> target]

\* power_rule with the target alone, without the predetermined capacity
power_rule_without_predetermined(per, tech_group) ==
    tech_group_target_rule(per, tech_group, BuildGen,
        tech_group_power_target[<<per, tech_group>>])

\* lines 578-582
power_rule(per, tech_group) ==
    tech_group_target_rule(per, tech_group, BuildGen,
        tech_group_power_target[<<per, tech_group>>]
        + predetermined_power_cap[<<per, tech_group>>])

\* lines 586-590: nothing ever fills the energy dict, so it adds 0
energy_rule(per, tech_group) ==
    tech_group_target_rule(per, tech_group, BuildStorageEnergy,
        tech_group_energy_target[<<per, tech_group>>] + 0)

\* lines 583-585: the rule runs for every period and group; an exception
\* in one of them ends the run and leaves no constraint behind
EnforcePower ==
    /\ pc = "power"
    /\ IF \E k \in PeriodGroups : power_rule(k[1], k[2]).mode = "ValueError"
       THEN /\ pc' = "failed"
            /\ err' = "ValueError: no matching projects"
            /\ UNCHANGED power_mode
       ELSE /\ power_mode' = [k \in PeriodGroups |-> power_rule(k[1], k[2])]
            /\ pc' = "energy"
            /\ UNCHANGED err
    /\ UNCHANGED <<inputs, tech_group_targets_definite, tech_group_targets,
                   techs_for_tech_group, tech_tech_group, existing_techs,
                   ages, rebuildable_targets, idx, rebuild, tech_life,
                   last_definite_target, tech_group_power_target,
                   tech_group_energy_target, predetermined_power_cap,
                   energy_mode, advanced, applied>>

\* lines 591-593
EnforceEnergy ==
    /\ pc = "energy"
    /\ IF \E k \in PeriodGroups : energy_rule(k[1], k[2]).mode = "ValueError"
       THEN /\ pc' = "failed"
            /\ err' = "ValueError: no matching projects"
            /\ UNCHANGED energy_mode
       ELSE /\ energy_mode' = [k \in PeriodGroups |-> energy_rule(k[1], k[2])]
            /\ pc' = "advanced"
            /\ UNCHANGED err
    /\ UNCHANGED <<inputs, tech_group_targets_definite, tech_group_targets,
                   techs_for_tech_group, tech_tech_group, existing_techs,
                   ages, rebuildable_targets, idx, rebuild, tech_life,
                   last_definite_target, tech_group_power_target,
                   tech_group_energy_target, predetermined_power_cap,
                   power_mode, advanced, applied>>

-----------------------------------------------------------------------------
(* Lines 595-613: other technologies under the PSIP *)

\* Line 596 raises NotImplementedError (TODO, lines 10-11) whenever psip is
\* set, so lines 600-613 never run.
NoAdvancedTech ==
    /\ pc = "advanced"
    /\ IF psip
       THEN /\ pc' = "failed"
            /\ err' = "NotImplementedError"
       ELSE /\ pc' = "done"
            /\ UNCHANGED err
    /\ UNCHANGED <<inputs, tech_group_targets_definite, tech_group_targets,
                   techs_for_tech_group, tech_tech_group, existing_techs,
                   ages, rebuildable_targets, idx, rebuild, tech_life,
                   last_definite_target, tech_group_power_target,
                   tech_group_energy_target, predetermined_power_cap,
                   power_mode, energy_mode, advanced, applied>>

-----------------------------------------------------------------------------
Next ==
    \/ ChooseTargets
    \/ ResolveGroups
    \/ LoadInputs
    \/ StartRebuild
    \/ RebuildFor
    \/ RebuildWhile
    \/ TargetParams
    \/ MakeTechGroupDicts
    \/ LastDefiniteTarget
    \/ EnforcePower
    \/ EnforceEnergy
    \/ NoAdvancedTech

Spec == Init /\ [][Next]_vars

\* The same run on inputs at the edges: a command-line target for a member
\* technology or for storage, a life of 0 years, a group without projects,
\* periods further apart than a life.
InitEdge ==
    /\ psip \in BOOLEAN
    /\ psip_relax_after \in RelaxAfterArgs
    /\ psip_minimal_renewables = FALSE
    /\ force_build \in ForceBuildArgsEdge
    /\ definite_table \in SubSeqsUpTo(DefiniteRows, MaxDefinite)
    /\ psip_table \in SubSeqsUpTo(PsipRows, MaxPlan)
    /\ gen_info_csv \in GenInfoFilesEdge
    /\ predetermined_csv \in PredeterminedFilesEdge
    /\ PERIODS \in PeriodListsEdge
    /\ BuildGen = GENERATION_PROJECTS \X Range(PERIODS)
    /\ Start

SpecEdge == InitEdge /\ [][Next]_vars

-----------------------------------------------------------------------------
(* Properties *)

RECURSIVE SumFn(_, _)
SumFn(I, f) ==
    IF I = {} THEN 0
    ELSE LET i == CHOOSE i \in I : TRUE
         IN  f[i] + SumFn(I \ {i}, f)

ParamsBuilt == DOMAIN tech_group_power_target # {}

\* the period before P, 0 for the first one
PrevOf(P) ==
    IF \A p \in Range(PERIODS) : p >= P THEN 0
    ELSE CHOOSE p \in Range(PERIODS) :
            p < P /\ \A o \in Range(PERIODS) : o < P => o <= p

\* event i of the expanded collection counts for period P and group G
Contributes(i, P, G) ==
    LET e == tech_group_targets[i]
    IN  /\ e.t = G
        /\ PrevOf(P) < e.y /\ e.y <= P
        /\ e.y + tech_life[G] > P

\* C1: for every period P and group G the power target is the sum of the
\* power quantities of exactly the events of the expanded collection with
\* group G whose year Y has prev(P) < Y <= P and Y + life(G) > P; the energy
\* target is that sum of power x hours over the events that carry hours,
\* and 0 when there are none.
C1_AggregationLaw ==
    ParamsBuilt =>
        \A k \in DOMAIN tech_group_power_target :
            LET P == k[1]
                G == k[2]
                all == {i \in DOMAIN tech_group_targets : Contributes(i, P, G)}
                paired == {i \in all : Len(tech_group_targets[i].q) = 2}
            IN  /\ tech_group_power_target[k] =
                     SumFn(all, [i \in all |-> tech_group_targets[i].q[1]])
                /\ tech_group_energy_target[k] =
                     SumFn(paired, [i \in paired |->
                        tech_group_targets[i].q[1] * tech_group_targets[i].q[2]])
                /\ (paired = {} => tech_group_energy_target[k] = 0)

\* C1 witness: targets were computed where one event counts, another of
\* the same group is left out as retired, and one energy target is not 0.
C1_Witness ==
    /\ ParamsBuilt
    /\ \E k \in DOMAIN tech_group_power_target :
          /\ tech_group_power_target[k] > 0
          /\ \E i \in DOMAIN tech_group_targets :
                LET e == tech_group_targets[i]
                IN  /\ e.t = k[2]
                    /\ PrevOf(k[1]) < e.y /\ e.y <= k[1]
                    /\ e.y + tech_life[k[2]] <= k[1]
    /\ \E k \in DOMAIN tech_group_energy_target :
          tech_group_energy_target[k] > 0

\* the case of C2: periods 2020, 2025, 2030, a life of 25 years and one
\* single event of the group, at 2022
C2_Case(G) ==
    /\ ParamsBuilt
    /\ PERIODS = <<2020, 2025, 2030>>
    /\ G \in DOMAIN tech_life /\ tech_life[G] = 25
    /\ \E i \in DOMAIN tech_group_targets :
          /\ tech_group_targets[i].t = G
          /\ tech_group_targets[i].y = 2022
          /\ \A j \in DOMAIN tech_group_targets :
                tech_group_targets[j].t = G => j = i

C2_Quantity(G) ==
    LET i == CHOOSE i \in DOMAIN tech_group_targets : tech_group_targets[i].t = G
    IN  tech_group_targets[i].q[1]

\* C2 as claimed: the event at 2022 counts for the 2025 target, not for the
\* 2020 target, and still counts for the 2030 target.
C2_StillCountsIn2030 ==
    \A G \in FORECASTED_TECH_GROUPS :
        C2_Case(G) =>
            /\ tech_group_power_target[<<2025, G>>] = C2_Quantity(G)
            /\ tech_group_power_target[<<2020, G>>] = 0
            /\ tech_group_power_target[<<2030, G>>] = C2_Quantity(G)

\* C2 amended: the event at 2022 counts for the 2025 target only; the 2020
\* and the 2030 targets of the group are 0.
C2_CountsIn2025Only ==
    \A G \in FORECASTED_TECH_GROUPS :
        C2_Case(G) =>
            /\ tech_group_power_target[<<2025, G>>] = C2_Quantity(G)
            /\ tech_group_power_target[<<2020, G>>] = 0
            /\ tech_group_power_target[<<2030, G>>] = 0

C2_Witness ==
    \E G \in FORECASTED_TECH_GROUPS :
        C2_Case(G) /\ tech_group_power_target[<<2025, G>>] = 740

-----------------------------------------------------------------------------
PowerEnforced == DOMAIN power_mode # {}
EnergyEnforced == DOMAIN energy_mode # {}

\* some project of the group has a variable of build_var for the period
HasVariable(per, tech_group, build_var) ==
    \E k \in build_var :
        /\ k[2] = per
        /\ gen_tech(k[1]) \in DOMAIN tech_tech_group
        /\ tech_tech_group[gen_tech(k[1])] = tech_group

Rule2(per) ==
    psip /\ (psip_relax_after = None \/ per <= psip_relax_after[1])
Rule3(per, tech_group) == per <= last_definite_get(tech_group)
Rule4(tech_group) == psip_minimal_renewables /\ is_renewable(tech_group)

C3_Expected(per, tech_group) ==
    IF Rule2(per) \/ Rule3(per, tech_group) \/ Rule4(tech_group)
    THEN "Exact" ELSE "LowerBound"

-----------------------------------------------------------------------------
\* the definite table plus the command-line target, before reconstruction
BaseDefinite == definite_table \o forced_targets

\* the last year of a base definite event of the group, 0 without one
LastBaseDefiniteYear(tech_group) ==
    LET years == {t.y : t \in {t \in Range(BaseDefinite) : t.t = tech_group}}
    IN  IF years = {} THEN 0
        ELSE CHOOSE y \in years : \A o \in years : o <= y

LastDefiniteKnown == pc \in {"power", "energy", "advanced", "done"}

\* C4: the last definite year of a group is the maximum year over its base
\* definite events (definite table and command-line target) only, without
\* plan events and without reconstruction events, whether strictPlan is true
\* or false.
C4_LastDefiniteIsBaseOnly ==
    LastDefiniteKnown =>
        \A tg \in FORECASTED_TECH_GROUPS :
            last_definite_get(tg) = LastBaseDefiniteYear(tg)

-----------------------------------------------------------------------------
\* the case of C5: definite events of the group through 2030, strictPlan,
\* relaxAfterYear = 2025, no minimalRenewablesOnly, a decision variable in
\* every period
C5_Case(tech_group) ==
    /\ PowerEnforced
    /\ psip /\ psip_relax_after = Some(2025) /\ ~psip_minimal_renewables
    /\ LastBaseDefiniteYear(tech_group) = 2030
    /\ \A per \in Range(PERIODS) : HasVariable(per, tech_group, BuildGen)

\* C5: in that case the periods 2025 and 2030 are Exact and every later
\* period is LowerBound.
C5_LockInOverridesRelaxation ==
    \A tg \in FORECASTED_TECH_GROUPS :
        C5_Case(tg) =>
            /\ power_mode[<<2025, tg>>].mode = "Exact"
            /\ power_mode[<<2030, tg>>].mode = "Exact"
            /\ \A per \in Range(PERIODS) :
                  per > 2030 => power_mode[<<per, tg>>].mode = "LowerBound"

C5_Witness ==
    \E tg \in FORECASTED_TECH_GROUPS :
        /\ C5_Case(tg)
        /\ 2045 \in Range(PERIODS)
        /\ power_mode[<<2030, tg>>].mode = "Exact"
        /\ power_mode[<<2035, tg>>].mode = "LowerBound"

-----------------------------------------------------------------------------
\* the case of C6: the one definite event (2020, DistPV, 162.3) and nothing
\* else, life 25, periods 2020, 2025, ..., 2045, strictPlan off, DistPV
\* variables in every period
C6_Case ==
    /\ PowerEnforced
    /\ ~psip
    /\ definite_table = <<Target(2020, "DistPV", <<1623>>)>>
    /\ force_build = None
    /\ predetermined_csv = <<>>
    /\ PERIODS = <<2020, 2025, 2030, 2035, 2040, 2045>>
    /\ tech_life["DistPV"] = 25
    /\ \A per \in Range(PERIODS) : HasVariable(per, "DistPV", BuildGen)

\* C6: in that case the power target is 162.3 and Exact at 2020 and again
\* at 2045, and every period from 2025 to 2040 is LowerBound.
C6_EndToEnd ==
    C6_Case =>
        /\ tech_group_power_target[<<2020, "DistPV">>] = 1623
        /\ power_mode[<<2020, "DistPV">>].mode = "Exact"
        /\ tech_group_power_target[<<2045, "DistPV">>] = 1623
        /\ power_mode[<<2045, "DistPV">>].mode = "Exact"
        /\ \A per \in {2025, 2030, 2035, 2040} :
              power_mode[<<per, "DistPV">>].mode = "LowerBound"

-----------------------------------------------------------------------------
\* the plan events that enter the collection
IncludedPlan ==
    IF psip
    THEN SelectSeq(psip_table,
            LAMBDA t : psip_relax_after = None \/ t.y <= psip_relax_after[1])
    ELSE <<>>

BaseTargets == BaseDefinite \o IncludedPlan

\* the historical seeds: existing capacity of renewable or battery groups
Seeds ==
    SelectSeq(existing_techs, LAMBDA t : is_renewable(t.t) \/ is_battery(t.t))

HorizonEnd == PERIODS[Len(PERIODS)]

\* floor((H - Y) / L), none when Y + L > H
SuccessorCount(Y, L) ==
    IF Y + L > HorizonEnd THEN 0 ELSE (HorizonEnd - Y) \div L

SuccessorsOf(e) ==
    [k \in 1..SuccessorCount(e.y, ages[e.t]) |->
        Target(e.y + k * ages[e.t], e.t, e.q)]

RECURSIVE AllSuccessors(_)
AllSuccessors(events) ==
    IF events = <<>> THEN <<>>
    ELSE SuccessorsOf(Head(events)) \o AllSuccessors(Tail(events))

\* the collection after one reconstruction pass over the seeds and the base
OnceExpanded == BaseTargets \o AllSuccessors(Seeds \o BaseTargets)

RebuildDone ==
    pc \in {"params", "dicts", "last_definite", "power", "energy",
            "advanced", "done"}

\* C7: after the reconstruction pass the collection is the base events
\* followed, for every seed and every base event at year Y with life L > 0,
\* by exactly one successor at each of Y+L, Y+2L, ... <= H (floor((H-Y)/L) of
\* them, none when Y+L > H) with the same group and quantity; nothing is after
\* H and no successor has successors of its own.
C7_RebuildCoverage ==
    (RebuildDone /\ applied = 1) =>
        /\ tech_group_targets = OnceExpanded
        /\ \A i \in DOMAIN tech_group_targets :
              i > Len(BaseTargets) => tech_group_targets[i].y <= HorizonEnd

\* C7 witness: a finished pass with an event that has several successors,
\* one whose last successor is at H itself and one that has none.
C7_Witness ==
    /\ RebuildDone /\ applied = 1
    /\ \E e \in Range(Seeds \o BaseTargets) :
          SuccessorCount(e.y, ages[e.t]) >= 2
    /\ \E e \in Range(Seeds \o BaseTargets) :
          /\ SuccessorCount(e.y, ages[e.t]) >= 1
          /\ e.y + SuccessorCount(e.y, ages[e.t]) * ages[e.t] = HorizonEnd
    /\ \E e \in Range(Seeds \o BaseTargets) :
          SuccessorCount(e.y, ages[e.t]) = 0
    /\ Len(tech_group_targets) > Len(BaseTargets)

-----------------------------------------------------------------------------
(* The reconstruction pass of lines 429-447 applied a second time, to its  *)
(* own result.  define_components runs the pass once; this specification   *)
(* is the experiment C8 speaks of.                                         *)

ApplyAgain ==
    /\ pc = "params"
    /\ applied = 1
    /\ pc' = "rebuildable"
    /\ UNCHANGED <<inputs, err, tech_group_targets_definite,
                   tech_group_targets, techs_for_tech_group, tech_tech_group,
                   existing_techs, ages, rebuildable_targets, idx, rebuild,
                   tech_life, last_definite_target, tech_group_power_target,
                   tech_group_energy_target, predetermined_power_cap,
                   power_mode, energy_mode, advanced, applied>>

InitReapply ==
    /\ Init
    /\ ~psip_minimal_renewables
    /\ BuildGen = GENERATION_PROJECTS \X Range(PERIODS)

NextReapply ==
    \/ ChooseTargets
    \/ ResolveGroups
    \/ LoadInputs
    \/ StartRebuild
    \/ RebuildFor
    \/ RebuildWhile
    \/ ApplyAgain

SpecReapply == InitReapply /\ [][NextReapply]_vars

PassesDone(n) == pc = "params" /\ applied = n

-----------------------------------------------------------------------------
Count(e, events) == Cardinality({i \in DOMAIN events : events[i] = e})

OverrideEvents ==
    IF force_build = None THEN {}
    ELSE {Target(force_build[1][1], force_build[1][2], <<force_build[1][3]>>)}

BaseChosen == pc \in {"groups", "load", "rebuildable"}

\* C9: the base collection holds every definite event and the command-line
\* event (if given) whatever strictPlan is, and a plan event iff strictPlan
\* holds and relaxAfterYear is unset or not before the event's year.
C9_BaseComposition ==
    BaseChosen =>
        \A e \in Range(definite_table) \cup Range(psip_table)
                 \cup OverrideEvents \cup Range(tech_group_targets) :
            Count(e, tech_group_targets) =
                Count(e, definite_table)
                + (IF e \in OverrideEvents THEN 1 ELSE 0)
                + (IF psip /\ (psip_relax_after = None
                               \/ e.y <= psip_relax_after[1])
                   THEN Count(e, psip_table) ELSE 0)

\* C9 witness: strictPlan with relaxAfterYear = 2025, a command-line event
\* and a plan event of 2025, which is kept.
C9_Witness ==
    /\ BaseChosen
    /\ psip /\ psip_relax_after = Some(2025) /\ force_build # None
    /\ definite_table # <<>>
    /\ \E e \in Range(psip_table) :
          e.y = 2025 /\ e \in Range(tech_group_targets)

-----------------------------------------------------------------------------
PowerTarget(k) == tech_group_power_target[k] + predetermined_power_cap[k]

NoProjectsError == pc = "failed" /\ err = "ValueError: no matching projects"

\* C10: a period and group without a matching decision variable is Skip,
\* with no project in the obligation, when its target (predetermined
\* capacity included) is 0; when the target is not 0 the run ends in an error
\* and the constraint is not registered.  The policy flags play no part.
C10_NoVariable ==
    /\ PowerEnforced =>
          \A k \in DOMAIN power_mode :
              ~HasVariable(k[1], k[2], BuildGen) =>
                  /\ PowerTarget(k) = 0
                  /\ power_mode[k].mode = "Skip"
                  /\ power_mode[k].build = {}
    /\ EnergyEnforced =>
          \A k \in DOMAIN energy_mode :
              ~HasVariable(k[1], k[2], BuildStorageEnergy) =>
                  /\ tech_group_energy_target[k] = 0
                  /\ energy_mode[k].mode = "Skip"
                  /\ energy_mode[k].build = {}
    /\ NoProjectsError =>
          /\ ~EnergyEnforced
          /\ ~PowerEnforced =>
                \E k \in PeriodGroups :
                    ~HasVariable(k[1], k[2], BuildGen) /\ PowerTarget(k) # 0
          /\ PowerEnforced =>
                \E k \in PeriodGroups :
                    /\ ~HasVariable(k[1], k[2], BuildStorageEnergy)
                    /\ tech_group_energy_target[k] # 0

\* C10 witness: under strictPlan a pair without a variable and with target
\* 0 was skipped.
C10_Witness ==
    /\ PowerEnforced
    /\ psip /\ psip_relax_after = None
    /\ \E k \in DOMAIN power_mode :
          /\ ~HasVariable(k[1], k[2], BuildGen)
          /\ power_mode[k].mode = "Skip"

-----------------------------------------------------------------------------
GroupsResolved == pc \notin {"targets", "groups"}

members(tech_group) == Range(techs_for_tech_group[tech_group])

\* C11: whatever the base events are (a command-line target for any name
\* included), the membership lists of the groups are pairwise disjoint, a
\* technology is in the list of a group iff the inverse map sends it to that
\* group, and a group without explicit aggregation has itself as its only
\* member.
C11_GroupingPartition ==
    GroupsResolved =>
        /\ \A g1 \in DOMAIN techs_for_tech_group :
              \A g2 \in DOMAIN techs_for_tech_group :
                  g1 # g2 => members(g1) \cap members(g2) = {}
        /\ \A g \in DOMAIN techs_for_tech_group :
              \A tech \in members(g) \cup DOMAIN tech_tech_group :
                  tech \in members(g)
                      <=> (tech \in DOMAIN tech_tech_group
                           /\ tech_tech_group[tech] = g)
        /\ \A g \in DOMAIN techs_for_tech_group \ {"DistPV", "LargePV"} :
              techs_for_tech_group[g] = <<g>>

-----------------------------------------------------------------------------
\* the errors of the run that a configuration causes
ConfigurationErrors ==
    {"AssertionError: pre-existing batteries", "AssertionError: mixed ages",
     "ValueError: no matching technologies",
     "ValueError: no matching projects"}

\* C12: under strictPlan a run without a configuration error completes, and
\* then a zero obligation PSIP_No_<v> is registered for exactly the advanced
\* technology variables v that the host model has (the absent ones are
\* passed over without an error); without strictPlan none is registered.
C12_StrictPlanSuppression ==
    /\ (psip /\ pc = "failed") => err \in ConfigurationErrors
    /\ (psip /\ pc = "done") =>
          advanced = advanced_tech_vars \cap model_attributes
    /\ ~psip => advanced = {}

-----------------------------------------------------------------------------
\* the capacity of gen_build_predetermined.csv recorded for a group and a
\* period
Committed(per, tech_group) ==
    SumCap({r \in Range(predetermined_csv) :
              /\ r.build_year = per
              /\ gen_tech(r.g) \in DOMAIN tech_tech_group
              /\ tech_tech_group[gen_tech(r.g)] = tech_group})

\* the projects of a group that have a build variable for a period
ProjectsWithVariable(per, tech_group) ==
    {g \in GENERATION_PROJECTS :
        /\ gen_tech(g) \in DOMAIN tech_tech_group
        /\ tech_tech_group[gen_tech(g)] = tech_group
        /\ <<g, per>> \in BuildGen}

\* C13: for every period and group classified Exact or LowerBound the power
\* obligation compares the sum of the build variables of exactly the
\* projects whose technology maps to the group and that have a variable for
\* the period with the aggregated power target plus the predetermined
\* capacity recorded for that group and period (== for Exact, >= for
\* LowerBound).
C13_PowerObligation ==
    PowerEnforced =>
        \A k \in DOMAIN power_mode :
            power_mode[k].mode \in {"Exact", "LowerBound"} =>
                /\ power_mode[k].build = ProjectsWithVariable(k[1], k[2])
                /\ power_mode[k].build # {}
                /\ power_mode[k].target =
                      tech_group_power_target[k] + Committed(k[1], k[2])

\* C13 witness: an obligation whose target includes predetermined capacity
\* and whose sum leaves out the projects of the other groups, in a run
\* where a project has no variable.
C13_Witness ==
    /\ PowerEnforced
    /\ \E k \in DOMAIN power_mode :
          /\ power_mode[k].mode \in {"Exact", "LowerBound"}
          /\ Committed(k[1], k[2]) > 0
          /\ power_mode[k].target = Committed(k[1], k[2])
          /\ power_mode[k].build # GENERATION_PROJECTS
    /\ \E g \in GENERATION_PROJECTS : \E per \in Range(PERIODS) :
          <<g, per>> \notin BuildGen

-----------------------------------------------------------------------------
\* some event of the group carries an energy quantity
HasEnergyTarget(tech_group) ==
    \E i \in DOMAIN tech_group_targets :
        /\ tech_group_targets[i].t = tech_group
        /\ Len(tech_group_targets[i].q) = 2

\* C14: an energy obligation is emitted for a period and group only if
\* some event of the group carries an energy quantity; a storage group with
\* power-only events, or with none, gets no energy obligation in any period,
\* whatever the policy flags are.
C14_EnergyOnlyWhenDefined ==
    EnergyEnforced =>
        \A k \in DOMAIN energy_mode :
            energy_mode[k].mode \in {"Exact", "LowerBound"} =>
                HasEnergyTarget(k[2])

-----------------------------------------------------------------------------
\* the groups of the life table: those with a project in the project file
LifeTable ==
    {tech_tech_group[p.gen_tech] :
        p \in {p \in gen_info_csv : p.gen_tech \in DOMAIN tech_tech_group}}

\* a base event or a historical seed names a group without a life
UnknownGroupEvent ==
    \E e \in Range(Seeds \o BaseTargets) : e.t \notin LifeTable

LifeTableLoaded == pc \notin {"targets", "groups", "load"}

\* C15: when a base event or a seed names a group that is not in the life
\* table, the run never computes a period target, never emits an obligation
\* and never completes: it can only be in the reconstruction loop with the
\* offending event still ahead, or ended by a configuration error.
C15_UnknownGroupIsFatal ==
    (LifeTableLoaded /\ UnknownGroupEvent) =>
        /\ pc \in {"rebuildable", "for", "while", "failed"}
        /\ ~ParamsBuilt
        /\ DOMAIN tech_group_energy_target = {}
        /\ ~PowerEnforced /\ ~EnergyEnforced /\ advanced = {}
        /\ pc = "failed" => err \in ConfigurationErrors
        /\ pc \in {"for", "while"} =>
              \E i \in idx..Len(rebuildable_targets) :
                  rebuildable_targets[i].t \notin LifeTable

\* C15 witness: the run was ended by the error for an unknown group after
\* the loop had already expanded an earlier event.
C15_Witness ==
    /\ pc = "failed"
    /\ err = "ValueError: no matching technologies"
    /\ UnknownGroupEvent
    /\ idx > 1
    /\ Len(tech_group_targets) > Len(BaseTargets)

-----------------------------------------------------------------------------
\* the year the while condition of line 445 tests next
TestedYear == rebuildable_targets[idx].y + rebuild * ages[rebuildable_targets[idx].t]

\* one pass through the body of the while loop
LoopBody == pc = "while" /\ pc' = "while"

\* C16: the successor loop exits after finitely many passes for every life
\* the project file can supply, 0 included: every pass through the body
\* moves the tested year strictly towards the end of the horizon, which it
\* never exceeds inside the body.
C16_LoopAdvances ==
    [][LoopBody => /\ TestedYear <= last_period
                   /\ TestedYear' > TestedYear]_vars

-----------------------------------------------------------------------------
IsPrefix(a, b) == Len(a) <= Len(b) /\ SubSeq(b, 1, Len(a)) = a

Expanding == pc \in {"rebuildable", "for", "while"}

\* C17: throughout the reconstruction pass the event collection is
\* append-only: at every step the collection before the step is a prefix of
\* the collection after it, so no event is deleted and no year, group or
\* quantity of an event already there is changed (the same for the list of
\* definite events).
C17_AppendOnly ==
    [][Expanding =>
          /\ IsPrefix(tech_group_targets, tech_group_targets')
          /\ IsPrefix(tech_group_targets_definite,
                      tech_group_targets_definite')]_vars

\* C17 witness: inside the loop, after two successors were appended to a
\* collection that had base events.
C17_Witness ==
    /\ pc = "while"
    /\ Len(BaseTargets) > 0
    /\ Len(tech_group_targets) >= Len(BaseTargets) + 2
    /\ IsPrefix(BaseTargets, tech_group_targets)

-----------------------------------------------------------------------------
\* the events the reconstruction starts from: the seeds, then the base events
Sources == Seeds \o BaseTargets

\* The years of the rebuild chain of source j that are in the collection: a
\* base event and its successors, for a seed its successors only.
ChainYears(j) ==
    LET e == Sources[j]
        L == tech_life[e.t]
        first == IF j <= Len(Seeds) THEN 1 ELSE 0
    IN  {e.y + n * L : n \in first..SuccessorCount(e.y, L)}

\* the chain members of source j with prev(P) < year <= P
InsideWindow(j, P) == {y \in ChainYears(j) : PrevOf(P) < y /\ y <= P}

\* the chain members of source j that count for P: P - L < year <= P as well
CountedYears(j, P) ==
    {y \in InsideWindow(j, P) : P - tech_life[Sources[j].t] < y}

PositiveLife(G) == G \in DOMAIN tech_life => tech_life[G] > 0

\* C18: for every base event (or seed) and every period P at most one
\* member of its rebuild chain counts for P's target, the latest of those
\* inside (prev(P), P]; so P's target is the sum, over the chains of the
\* group with a member in (prev(P), P], of the quantity of the chain, once.
C18_NoDoubleCounting ==
    ParamsBuilt =>
        \A k \in DOMAIN tech_group_power_target :
            PositiveLife(k[2]) =>
                LET P == k[1]
                    chains == {j \in DOMAIN Sources : Sources[j].t = k[2]}
                IN  /\ \A j \in chains :
                          /\ Cardinality(CountedYears(j, P)) <= 1
                          /\ InsideWindow(j, P) # {} =>
                                CountedYears(j, P) =
                                    {CHOOSE y \in InsideWindow(j, P) :
                                        \A o \in InsideWindow(j, P) : o <= y}
                    /\ tech_group_power_target[k] =
                          SumFn(chains,
                                [j \in chains |->
                                    IF InsideWindow(j, P) # {}
                                    THEN Sources[j].q[1] ELSE 0])

\* C18 witness: a period further from the previous one than the life of a
\* group, with two members of one chain inside the window and the quantity
\* of the chain as the target.
C18_Witness ==
    /\ ParamsBuilt
    /\ \E k \in DOMAIN tech_group_power_target :
          /\ k[2] \in DOMAIN tech_life /\ tech_life[k[2]] > 0
          /\ k[1] - PrevOf(k[1]) > tech_life[k[2]]
          /\ PrevOf(k[1]) > 0
          /\ \E j \in DOMAIN Sources :
                /\ Sources[j].t = k[2]
                /\ Cardinality(InsideWindow(j, k[1])) >= 2
                /\ tech_group_power_target[k] = Sources[j].q[1]

-----------------------------------------------------------------------------
\* C19: for every group, among the periods with a matching decision
\* variable, once a period is LowerBound every later one is LowerBound too:
\* the Exact periods come first and Exact never resumes (power and energy
\* obligations alike).
C19_MonotoneEnforcement ==
    /\ PowerEnforced =>
          \A k1 \in DOMAIN power_mode : \A k2 \in DOMAIN power_mode :
              (/\ k1[2] = k2[2] /\ k1[1] < k2[1]
               /\ HasVariable(k1[1], k1[2], BuildGen)
               /\ HasVariable(k2[1], k2[2], BuildGen)
               /\ power_mode[k1].mode = "LowerBound")
                  => power_mode[k2].mode = "LowerBound"
    /\ EnergyEnforced =>
          \A k1 \in DOMAIN energy_mode : \A k2 \in DOMAIN energy_mode :
              (/\ k1[2] = k2[2] /\ k1[1] < k2[1]
               /\ HasVariable(k1[1], k1[2], BuildStorageEnergy)
               /\ HasVariable(k2[1], k2[2], BuildStorageEnergy)
               /\ energy_mode[k1].mode = "LowerBound")
                  => energy_mode[k2].mode = "LowerBound"

\* C19 witness: a group that is Exact in a first and a second period, under
\* the plan and then under its definite targets, and LowerBound in the two
\* periods after them.
C19_Witness ==
    /\ PowerEnforced
    /\ psip /\ psip_relax_after # None
    /\ \E tg \in FORECASTED_TECH_GROUPS :
          /\ \A per \in Range(PERIODS) : HasVariable(per, tg, BuildGen)
          /\ power_mode[<<2020, tg>>].mode = "Exact"
          /\ power_mode[<<2030, tg>>].mode = "Exact"
          /\ 2040 \in Range(PERIODS)
          /\ power_mode[<<2035, tg>>].mode = "LowerBound"
          /\ power_mode[<<2040, tg>>].mode = "LowerBound"

====
